---- MODULE Spec2Model ----
(***************************************************************************)
(* The inbox task-queue engine of mit-service: the producer (Service),    *)
(* the worker pool (InboxWorker) with its retry path and detached retry    *)
(* timers, and the in-memory stores (MockRepository).  Every store call   *)
(* is one atomic step (the store's mutex); a worker is interleaved with    *)
(* the other workers, the timers and the callers between its store calls.  *)
(* Also the shutdown of the pool (Stop), the cleanup sweep, the task       *)
(* statistics, the health evaluation of a metrics snapshot, and the        *)
(* Metrics aggregator: the queue depth with its high-water mark and the    *)
(* derived rates.  Of the aggregator the pollers are modelled to set the   *)
(* queue depth; the execution counters are modelled in SpecRates.          *)
(***************************************************************************)
EXTENDS Integers, Sequences, FiniteSets, TLC

(* ------------------------------ bounds -------------------------------- *)
\* number of pollers started by Start (INBOX_WORKER_COUNT)
WorkerCount == 2
\* limit passed to GetPendingTasks (INBOX_BATCH_SIZE)
BatchSize == 2
\* the configured retry maximum (INBOX_MAX_RETRIES)
maxRetries == 2
\* number of RecordHTTPRequest and RecordTaskExecution calls explored
MaxRecords == 3
\* how far the aggregator's clock runs, in half seconds
MaxTicks == 5
\* number of concurrent callers of SetQueueDepth
MaxCallers == 3
\* the largest depth a caller of SetQueueDepth passes
MaxDepth == 2
\* number of producer calls explored by Spec
MaxTasks == 2
\* number of Service.Get calls explored by SpecGet
MaxGets == 1
\* pollers tick only while every pending task's stored retries is below this
MaxStoredRetries == 3
\* the clock counts hours and advances by this much at a time
ClockStep == 12
\* the clock stops advancing here
MaxNow == 48

Workers == 1..WorkerCount
RecordIds == {"u1"}

(* ------------------------------ values -------------------------------- *)
\* models.TaskStatus* and models.TaskOperation*
TaskStatusPending == "pending"
TaskStatusProcessing == "processing"
TaskStatusCompleted == "completed"
TaskStatusFailed == "failed"
TaskOperationInsert == "insert"
TaskOperationUpdate == "update"
TaskOperationDelete == "delete"

\* the error texts the apply path produces
ErrNone == ""
ErrInvalidTaskOperation == "invalid task operation"
ErrInsertConflict == "record already exists but with different value"
ErrVerifyExisting == "failed to verify existing record"
ErrUpdateNotFound == "failed to update record: not found"
ErrDeleteNotFound == "failed to delete record: not found"
ErrCreateTask == "failed to create inbox task"
Errors ==
  {ErrInvalidTaskOperation, ErrInsertConflict, ErrVerifyExisting,
   ErrUpdateNotFound, ErrDeleteNotFound}

\* request documents (map[string]interface{}): two documents whose key sets
\* differ, so that a merge and a replacement are told apart
ValA == [name |-> 1, age |-> 25]
ValB == [name |-> 2, city |-> 3]
Values == {ValA, ValB}

\* encoding/json writes the keys of a map in sorted order
KeyOrder == <<"age", "city", "name">>

\* json.Marshal of a document: the key/value pairs in key order
Marshal(v) ==
  LET ks == SelectSeq(KeyOrder, LAMBDA k : k \in DOMAIN v)
  IN  [i \in 1..Len(ks) |-> <<ks[i], v[ks[i]]>>]

\* json.Unmarshal into map[string]interface{}
Unmarshal(s) ==
  [k \in {s[i][1] : i \in DOMAIN s} |->
     s[CHOOSE i \in DOMAIN s : s[i][1] = k][2]]

\* json.Marshal of InsertTaskPayload / UpdateTaskPayload / DeleteTaskPayload
MarshalValuePayload(rid, v) == [id |-> rid, value |-> Marshal(v)]
MarshalDeletePayload(rid) == [id |-> rid]

VARIABLES
  records,   \* MockRepository.records: record id -> document
  tasks,     \* MockRepository.inboxTasks: task id -> InboxTask
  nextId,    \* the next fresh task id (uuid.New)
  workers,   \* per poller: where it is in processTasks and the batch it holds
  timers,    \* detached retry goroutines sleeping in handleTaskError
  now,       \* the clock read by time.Now
  getCalls,  \* Service.Get calls made
  lastGet,   \* what the last Service.Get returned
  ret,       \* per Insert / Update / Delete call made: the error it returned
  lastStats, \* what the last GetTaskStats returned
  running,   \* InboxWorker.running
  stopCh,    \* InboxWorker.stopCh is closed
  stopper,   \* where the caller of Stop is
  cleaner,   \* where the cleanupWorker goroutine is
  snapshot,  \* the MetricsSnapshot under evaluation
  health,    \* the HealthStatus GetHealthStatus returned for it
  metrics,   \* the fields of the Metrics aggregator
  setters,   \* per caller of SetQueueDepth: where it is in the call
  ticks      \* the clock the aggregator reads, in half seconds

poolVars == <<running, stopCh, stopper, cleaner>>
healthVars == <<snapshot, health>>
metricsVars == <<metrics, setters, ticks>>
vars ==
  <<records, tasks, nextId, workers, timers, now, getCalls, lastGet, ret,
    lastStats, poolVars, healthVars, metricsVars>>

(* ------------------------- MockRepository: records -------------------- *)
Put(f, k, v) == (k :> v) @@ f
Remove(f, k) == [x \in DOMAIN f \ {k} |-> f[x]]

\* a store that drops a key of the document it is given
MockInsertPartial(recs, rid, v) ==
  IF rid \in DOMAIN recs THEN recs
  ELSE Put(recs, rid, [k \in DOMAIN v \ {"name"} |-> v[k]])

\* Insert: error when the id exists, else store the record
MockInsertOk(recs, rid) == rid \notin DOMAIN recs
MockInsert(recs, rid, v) == IF rid \in DOMAIN recs THEN recs ELSE Put(recs, rid, v)

\* an update that writes the record whether or not it exists
MockUpsert(recs, rid, v) == Put(recs, rid, v)

\* a store that lays the new document over the old one, key by key
MockUpdateMerge(recs, rid, v) ==
  IF rid \in DOMAIN recs THEN Put(recs, rid, v @@ recs[rid]) ELSE recs

\* an update that does not look at whether a record was there
MockUpdateAlwaysOk(recs, rid) == TRUE

\* Update: error when the id is missing, else replace the record
MockUpdateOk(recs, rid) == rid \in DOMAIN recs
MockUpdate(recs, rid, v) == IF rid \in DOMAIN recs THEN Put(recs, rid, v) ELSE recs

\* Delete: error when the id is missing, else remove the record
MockDeleteOk(recs, rid) == rid \in DOMAIN recs
MockDelete(recs, rid) == IF rid \in DOMAIN recs THEN Remove(recs, rid) ELSE recs

\* Get: the record, or a not-found error
NotFound == [found |-> FALSE]
MockGet(recs, rid) ==
  IF rid \in DOMAIN recs THEN [found |-> TRUE, value |-> recs[rid]] ELSE NotFound

(* -------------------------- MockRepository: inbox --------------------- *)
Min(a, b) == IF a < b THEN a ELSE b

RECURSIVE Perms(_)
Perms(S) ==
  IF S = {} THEN {<<>>}
  ELSE UNION {{<<x>> \o p : p \in Perms(S \ {x})} : x \in S}

\* CreateTask: store a copy under the task's id
MockCreateTask(ts, task) == Put(ts, task.id, task)

PendingIds(ts) == {t \in DOMAIN ts : ts[t].status = TaskStatusPending}

\* GetPendingTasks: copies of up to limit pending tasks, in the order the map
\* iteration meets them; the stored tasks are left as they are
MockGetPendingTasks(ts, limit) ==
  LET n == Min(limit, Cardinality(PendingIds(ts)))
      picks == {X \in SUBSET PendingIds(ts) : Cardinality(X) = n}
  IN  {[i \in 1..Len(p) |-> ts[p[i]]] : p \in UNION {Perms(X) : X \in picks}}

\* a status update that also stamps created_at
UpdateTaskStatusStampsCreated(ts, tid, status, errorMsg) ==
  IF tid \notin DOMAIN ts THEN ts
  ELSE [ts EXCEPT ![tid].status = status,
                  ![tid].updated_at = now,
                  ![tid].created_at = now,
                  ![tid].error = errorMsg]

\* a status update that leaves the stored error as it was
UpdateTaskStatusKeepsError(ts, tid, status, errorMsg) ==
  IF tid \notin DOMAIN ts THEN ts
  ELSE [ts EXCEPT ![tid].status = status, ![tid].updated_at = now]

\* UpdateTaskStatus: unknown id is an error; else status, updated_at, error
MockUpdateTaskStatus(ts, tid, status, errorMsg) ==
  IF tid \notin DOMAIN ts THEN ts
  ELSE [ts EXCEPT ![tid].status = status,
                  ![tid].updated_at = now,
                  ![tid].error = errorMsg]

\* an increment that stops counting at one
IncrementTaskRetriesOnce(ts, tid) ==
  IF tid \notin DOMAIN ts THEN ts
  ELSE [ts EXCEPT ![tid].retries = 1, ![tid].updated_at = now]

\* IncrementTaskRetries: unknown id is an error; else retries++, updated_at
MockIncrementTaskRetries(ts, tid) ==
  IF tid \notin DOMAIN ts THEN ts
  ELSE [ts EXCEPT ![tid].retries = @ + 1, ![tid].updated_at = now]

\* the number of stored tasks in a status
CountStatus(ts, status) == Cardinality({t \in DOMAIN ts : ts[t].status = status})

\* statistics that book the pending tasks as processing
StatsPendingAsProcessing(ts) ==
  [TotalTasks |-> Cardinality(DOMAIN ts),
   PendingTasks |-> 0,
   ProcessingTasks |-> CountStatus(ts, TaskStatusPending) + CountStatus(ts, TaskStatusProcessing),
   CompletedTasks |-> CountStatus(ts, TaskStatusCompleted),
   FailedTasks |-> CountStatus(ts, TaskStatusFailed)]

\* GetTaskStats: the size of the map, and per status the tasks the switch
\* counts for it
MockGetTaskStats(ts) ==
  [TotalTasks |-> Cardinality(DOMAIN ts),
   PendingTasks |-> CountStatus(ts, TaskStatusPending),
   ProcessingTasks |-> CountStatus(ts, TaskStatusProcessing),
   CompletedTasks |-> CountStatus(ts, TaskStatusCompleted),
   FailedTasks |-> CountStatus(ts, TaskStatusFailed)]

\* a sweep that goes by age alone
MockDeleteOldTasks(ts, olderThanHours) ==
  LET cutoffTime == now - olderThanHours
      old == {t \in DOMAIN ts : ts[t].updated_at < cutoffTime}
  IN  [t \in DOMAIN ts \ old |-> ts[t]]

\* a sweep that removes completed tasks and keeps the failed ones
MockDeleteCompletedOnly(ts, olderThanHours) ==
  LET cutoffTime == now - olderThanHours
      old == {t \in DOMAIN ts :
                ts[t].status = TaskStatusCompleted /\ ts[t].updated_at < cutoffTime}
  IN  [t \in DOMAIN ts \ old |-> ts[t]]

\* DeleteCompletedTasks: drop the completed and failed tasks last updated
\* before now - olderThanHours
MockDeleteCompletedTasks(ts, olderThanHours) ==
  LET cutoffTime == now - olderThanHours
      old == {t \in DOMAIN ts :
                /\ ts[t].status \in {TaskStatusCompleted, TaskStatusFailed}
                /\ ts[t].updated_at < cutoffTime}
  IN  [t \in DOMAIN ts \ old |-> ts[t]]

(* ------------------------------ Service ------------------------------- *)
\* the InboxTask a producer call builds: pending, no retries, no error
TaskOf(tid, op, payload, at) ==
  [id |-> tid, operation |-> op, payload |-> payload,
   status |-> TaskStatusPending, created_at |-> at, updated_at |-> at,
   retries |-> 0, error |-> ErrNone]

NewTask(op, payload) == TaskOf(nextId, op, payload, now)

Enqueue(op, payload) ==
  /\ tasks' = MockCreateTask(tasks, NewTask(op, payload))
  /\ nextId' = nextId + 1
  /\ ret' = Put(ret, nextId, ErrNone)
  /\ UNCHANGED <<records, workers, timers, now, getCalls, lastGet, lastStats,
               poolVars, healthVars, metricsVars>>

\* a create that reports an error and has stored the task all the same
CreateTaskStoredAnyway(ts, task) == Put(ts, task.id, task)

\* PostgresRepository.CreateTask when the INSERT fails: no row is written
PostgresCreateTaskFailed(ts, task) == ts

\* Service.Insert / Update / Delete when CreateTask returns an error: the
\* error goes back to the caller
EnqueueFails(op, payload) ==
  /\ tasks' = PostgresCreateTaskFailed(tasks, NewTask(op, payload))
  /\ nextId' = nextId + 1
  /\ ret' = Put(ret, nextId, ErrCreateTask)
  /\ UNCHANGED <<records, workers, timers, now, getCalls, lastGet, lastStats,
               poolVars, healthVars, metricsVars>>

ServiceInsertDirect(rid, v) ==
  /\ records' = MockInsert(records, rid, v)
  /\ UNCHANGED <<tasks, nextId, workers, timers, now, getCalls, lastGet, ret, lastStats,
               poolVars, healthVars, metricsVars>>

\* Service.Insert / Update / Delete: persist one pending task
ServiceInsert(rid, v) == Enqueue(TaskOperationInsert, MarshalValuePayload(rid, v))
ServiceUpdate(rid, v) == Enqueue(TaskOperationUpdate, MarshalValuePayload(rid, v))
ServiceDelete(rid) == Enqueue(TaskOperationDelete, MarshalDeletePayload(rid))

\* a read that goes through the inbox: it leaves a task behind
ServiceGetEnqueues(rid) ==
  /\ lastGet' = [id |-> rid, result |-> MockGet(records, rid)]
  /\ getCalls' = getCalls + 1
  /\ tasks' = MockCreateTask(tasks, NewTask("get", [id |-> rid]))
  /\ nextId' = nextId + 1
  /\ UNCHANGED <<records, workers, timers, now, ret, lastStats, poolVars, healthVars, metricsVars>>

\* Service.GetTaskStats: hand back what the task store reports
ServiceGetTaskStats ==
  /\ lastStats' = MockGetTaskStats(tasks)
  /\ UNCHANGED <<records, tasks, nextId, workers, timers, now, getCalls, lastGet,
               ret, poolVars, healthVars, metricsVars>>

\* what Service.Get hands back: the record read from the record store
ServiceGetResult(rid) == MockGet(records, rid)

\* Service.Get: a synchronous read
ServiceGet(rid) ==
  /\ lastGet' = [id |-> rid, result |-> ServiceGetResult(rid)]
  /\ getCalls' = getCalls + 1
  /\ UNCHANGED <<records, tasks, nextId, workers, timers, now, ret, lastStats, poolVars, healthVars, metricsVars>>

(* ---------------------------- InboxWorker ----------------------------- *)
Idle == [pc |-> "idle", batch |-> <<>>, err |-> ErrNone]

\* the task a worker is working on: the head of its batch
Current(w) == Head(workers[w].batch)

\* the for loop of processTasks moves on to the next fetched task
NextTask(w) ==
  LET rest == Tail(workers[w].batch)
  IN  [pc |-> IF rest = <<>> THEN "idle" ELSE "apply", batch |-> rest, err |-> ErrNone]

At(w, pc, err) == [workers EXCEPT ![w].pc = pc, ![w].err = err]

\* the retry goroutines not yet woken: a bag of <<task id, error text>>
AddTimer(bag, k) == IF k \in DOMAIN bag THEN [bag EXCEPT ![k] = @ + 1] ELSE Put(bag, k, 1)
DropTimer(bag, k) == IF bag[k] = 1 THEN Remove(bag, k) ELSE [bag EXCEPT ![k] = @ - 1]

\* the comparison with its sense inverted
DifferentDocument(existing, new) == Marshal(existing) # Marshal(new)

\* the comparison of processInsertTask: the two documents' JSON texts
SameDocument(existing, new) == Marshal(existing) = Marshal(new)

\* one second on the aggregator's clock (elapsed >= 1.0)
Second == 2

\* the duration of a recorded request or task, in milliseconds
DurationMs == 10

\* a float64 kept as the quotient it was computed from; the zero value
Quotient(n, d) == [n |-> n, d |-> d]
ZeroFloat == Quotient(0, 1)

\* NewMetrics: every counter zero, startTime and lastMetricsUpdate the time
\* of construction
NewMetrics ==
  [queueDepth |-> 0, maxQueueDepth |-> 0,
   totalRequests |-> 0, successfulRequests |-> 0, failedRequests |-> 0,
   totalResponseTime |-> 0, requestsPerSecond |-> ZeroFloat,
   avgResponseTime |-> ZeroFloat, lastRequestTime |-> 0,
   totalTasks |-> 0, completedTasks |-> 0, failedTasks |-> 0,
   totalTaskTime |-> 0, tasksPerSecond |-> ZeroFloat,
   avgTaskTime |-> ZeroFloat, lastTaskTime |-> 0,
   startTime |-> 0, lastMetricsUpdate |-> 0]

RatesFrame ==
  UNCHANGED <<records, tasks, nextId, workers, timers, now, getCalls, lastGet, ret,
              lastStats, poolVars, healthVars, setters>>

\* updateHTTPMetrics on counters m: a second or more after lastMetricsUpdate
\* the average and the rate are recomputed and lastMetricsUpdate is set
UpdateHTTPMetrics(m) ==
  IF ticks - m.lastMetricsUpdate >= Second
  THEN [m EXCEPT
          !.avgResponseTime = IF m.totalRequests > 0
                              THEN Quotient(m.totalResponseTime, m.totalRequests) ELSE @,
          !.requestsPerSecond = IF ticks - m.startTime > 0
                                THEN Quotient(m.totalRequests, ticks - m.startTime) ELSE @,
          !.lastMetricsUpdate = ticks]
  ELSE m

\* RecordHTTPRequest: count the request, then updateHTTPMetrics
RecordHTTPRequest(success) ==
  /\ metrics' = UpdateHTTPMetrics(
                   [metrics EXCEPT
                      !.totalRequests = @ + 1,
                      !.totalResponseTime = @ + DurationMs,
                      !.successfulRequests = IF success THEN @ + 1 ELSE @,
                      !.failedRequests = IF success THEN @ ELSE @ + 1,
                      !.lastRequestTime = ticks])
  /\ UNCHANGED ticks
  /\ RatesFrame

\* updateTaskMetrics on counters m: a second or more after lastMetricsUpdate
\* the average and the rate are recomputed; lastMetricsUpdate is not written
UpdateTaskMetrics(m) ==
  IF ticks - m.lastMetricsUpdate >= Second
  THEN [m EXCEPT
          !.avgTaskTime = IF m.totalTasks > 0
                          THEN Quotient(m.totalTaskTime, m.totalTasks) ELSE @,
          !.tasksPerSecond = IF ticks - m.startTime > 0
                             THEN Quotient(m.totalTasks, ticks - m.startTime) ELSE @]
  ELSE m

\* RecordTaskExecution: count the task, then updateTaskMetrics
RecordTaskExecution(success) ==
  /\ metrics' = UpdateTaskMetrics(
                   [metrics EXCEPT
                      !.totalTasks = @ + 1,
                      !.totalTaskTime = @ + DurationMs,
                      !.completedTasks = IF success THEN @ + 1 ELSE @,
                      !.failedTasks = IF success THEN @ ELSE @ + 1,
                      !.lastTaskTime = ticks])
  /\ UNCHANGED ticks
  /\ RatesFrame

\* half a second passes on the aggregator's clock
HalfSecond ==
  /\ ticks < MaxTicks
  /\ ticks' = ticks + 1
  /\ UNCHANGED metrics
  /\ RatesFrame

\* the goroutines that call SetQueueDepth at the same time
Callers == 1..MaxCallers

\* the depths the callers pass: counts of tasks
Depths == 0..MaxDepth

\* a caller that has not called SetQueueDepth
NotCalled == [pc |-> "idle", depth |-> 0, current |-> 0]

MetricsFrame ==
  UNCHANGED <<records, tasks, nextId, workers, timers, now, getCalls, lastGet, ret,
              lastStats, poolVars, healthVars, ticks>>

\* SetQueueDepth is called with a depth
CallSetQueueDepth(c, depth) ==
  /\ setters[c].pc = "idle"
  /\ setters' = [setters EXCEPT ![c] = [pc |-> "store", depth |-> depth, current |-> 0]]
  /\ UNCHANGED metrics
  /\ MetricsFrame

\* atomic.StoreInt64(&m.queueDepth, depth)
StoreQueueDepth(c) ==
  /\ setters[c].pc = "store"
  /\ metrics' = [metrics EXCEPT !.queueDepth = setters[c].depth]
  /\ setters' = [setters EXCEPT ![c].pc = "load"]
  /\ MetricsFrame

\* the head of the loop: load the high-water mark and leave when the depth
\* does not exceed it
LoadMaxQueueDepth(c) ==
  /\ setters[c].pc = "load"
  /\ setters' = [setters EXCEPT
                   ![c].current = metrics.maxQueueDepth,
                   ![c].pc = IF setters[c].depth <= metrics.maxQueueDepth
                             THEN "returned" ELSE "cas"]
  /\ UNCHANGED metrics
  /\ MetricsFrame

\* a plain store in place of the compare-and-swap
StoreMaxQueueDepth(c) ==
  /\ setters[c].pc = "cas"
  /\ metrics' = [metrics EXCEPT !.maxQueueDepth = setters[c].depth]
  /\ setters' = [setters EXCEPT ![c].pc = "returned"]
  /\ MetricsFrame

\* atomic.CompareAndSwapInt64(&m.maxQueueDepth, current, depth): on success
\* the call returns, on failure the loop starts over
CompareAndSwapMaxQueueDepth(c) ==
  /\ setters[c].pc = "cas"
  /\ IF metrics.maxQueueDepth = setters[c].current
     THEN /\ metrics' = [metrics EXCEPT !.maxQueueDepth = setters[c].depth]
          /\ setters' = [setters EXCEPT ![c].pc = "returned"]
     ELSE /\ setters' = [setters EXCEPT ![c].pc = "load"]
          /\ UNCHANGED metrics
  /\ MetricsFrame

\* Metrics.SetQueueDepth run without interference: store the depth and
\* raise the high-water mark to it
SetQueueDepth(m, depth) ==
  [m EXCEPT !.queueDepth = depth,
            !.maxQueueDepth = IF depth <= @ THEN @ ELSE depth]

\* Service.GetTasks: the listing reads the statistics and sets the queue
\* depth to the pending plus the processing tasks; the statistics are part of
\* its response
ServiceGetTasks ==
  LET stats == MockGetTaskStats(tasks)
  IN  /\ metrics' = SetQueueDepth(metrics, stats.PendingTasks + stats.ProcessingTasks)
      /\ lastStats' = stats
      /\ UNCHANGED <<records, tasks, nextId, workers, timers, now, getCalls, lastGet,
                     ret, poolVars, healthVars, setters, ticks>>

\* worker / processTasks: a tick of the poller fetches a batch and, when the
\* batch is not empty, sets the queue depth to its length
ProcessTasks(w) ==
  /\ workers[w].pc = "idle"
  /\ \E fetched \in MockGetPendingTasks(tasks, BatchSize) :
       /\ workers' = [workers EXCEPT
                        ![w] = IF fetched = <<>> THEN Idle
                               ELSE [pc |-> "apply", batch |-> fetched, err |-> ErrNone]]
       /\ metrics' = IF fetched = <<>> THEN metrics
                     ELSE SetQueueDepth(metrics, Len(fetched))
  /\ UNCHANGED <<records, tasks, nextId, timers, now, getCalls, lastGet, ret, lastStats,
               poolVars, healthVars, setters, ticks>>

\* processInsertTask up to the return of Record.Insert
ProcessInsertTask(w) ==
  LET rid == Current(w).payload.id
      v == Unmarshal(Current(w).payload.value)
  IN  IF MockInsertOk(records, rid)
      THEN /\ records' = MockInsert(records, rid, v)
           /\ workers' = At(w, "complete", ErrNone)
      ELSE /\ workers' = At(w, "verify", ErrNone)
           /\ UNCHANGED records

\* processInsertTask after a duplicate key: Record.Get and the comparison of
\* the two documents' JSON
VerifyExisting(w) ==
  LET rid == Current(w).payload.id
      v == Unmarshal(Current(w).payload.value)
      existing == MockGet(records, rid)
      processErr == IF ~existing.found THEN ErrVerifyExisting
                    ELSE IF SameDocument(existing.value, v) THEN ErrNone
                    ELSE ErrInsertConflict
  IN  /\ workers[w].pc = "verify"
      /\ workers' = At(w, IF processErr = ErrNone THEN "complete" ELSE "increment",
                       processErr)
      /\ UNCHANGED <<records, tasks, nextId, timers, now, getCalls, lastGet, ret, lastStats,
               poolVars, healthVars, metricsVars>>

\* processUpdateTask
ProcessUpdateTask(w) ==
  LET rid == Current(w).payload.id
      v == Unmarshal(Current(w).payload.value)
      ok == MockUpdateOk(records, rid)
  IN  /\ records' = MockUpdate(records, rid, v)
      /\ workers' = At(w, IF ok THEN "complete" ELSE "increment",
                       IF ok THEN ErrNone ELSE ErrUpdateNotFound)

\* processDeleteTask
ProcessDeleteTask(w) ==
  LET rid == Current(w).payload.id
      ok == MockDeleteOk(records, rid)
  IN  /\ records' = MockDelete(records, rid)
      /\ workers' = At(w, IF ok THEN "complete" ELSE "increment",
                       IF ok THEN ErrNone ELSE ErrDeleteNotFound)

\* a dispatch that lets a task of unknown operation pass as applied
ProcessTaskSkipsUnknown(w) ==
  /\ workers[w].pc = "apply"
  /\ CASE Current(w).operation = TaskOperationInsert -> ProcessInsertTask(w)
       [] Current(w).operation = TaskOperationUpdate -> ProcessUpdateTask(w)
       [] Current(w).operation = TaskOperationDelete -> ProcessDeleteTask(w)
       [] OTHER -> /\ workers' = At(w, "complete", ErrNone)
                   /\ UNCHANGED records
  /\ UNCHANGED <<tasks, nextId, timers, now, getCalls, lastGet, ret, lastStats,
               poolVars, healthVars, metricsVars>>

\* processTask: the dispatch on the task's operation
ProcessTask(w) ==
  /\ workers[w].pc = "apply"
  /\ CASE Current(w).operation = TaskOperationInsert -> ProcessInsertTask(w)
       [] Current(w).operation = TaskOperationUpdate -> ProcessUpdateTask(w)
       [] Current(w).operation = TaskOperationDelete -> ProcessDeleteTask(w)
       [] OTHER -> /\ workers' = At(w, "increment", ErrInvalidTaskOperation)
                   /\ UNCHANGED records
  /\ UNCHANGED <<tasks, nextId, timers, now, getCalls, lastGet, ret, lastStats,
               poolVars, healthVars, metricsVars>>

\* processTask after a successful apply: mark the task completed
MarkCompleted(w) ==
  /\ workers[w].pc = "complete"
  /\ tasks' = MockUpdateTaskStatus(tasks, Current(w).id, TaskStatusCompleted, ErrNone)
  /\ workers' = [workers EXCEPT ![w] = NextTask(w)]
  /\ UNCHANGED <<records, nextId, timers, now, getCalls, lastGet, ret, lastStats,
               poolVars, healthVars, metricsVars>>

\* the test of handleTaskError: the retries of the fetched copy
MaxRetriesExceeded(task) == task.retries >= maxRetries

\* handleTaskError: IncrementTaskRetries, then the test; below the maximum
\* the retry goroutine is started and the worker moves on
HandleTaskError(w) ==
  /\ workers[w].pc = "increment"
  /\ tasks' = MockIncrementTaskRetries(tasks, Current(w).id)
  /\ IF MaxRetriesExceeded(Current(w))
     THEN /\ workers' = At(w, "markFailed", workers[w].err)
          /\ UNCHANGED timers
     ELSE /\ workers' = [workers EXCEPT ![w] = NextTask(w)]
          /\ timers' = AddTimer(timers, <<Current(w).id, workers[w].err>>)
  /\ UNCHANGED <<records, nextId, now, getCalls, lastGet, ret, lastStats,
               poolVars, healthVars, metricsVars>>

\* handleTaskError at the maximum: mark the task failed
MarkFailed(w) ==
  /\ workers[w].pc = "markFailed"
  /\ tasks' = MockUpdateTaskStatus(tasks, Current(w).id, TaskStatusFailed, workers[w].err)
  /\ workers' = [workers EXCEPT ![w] = NextTask(w)]
  /\ UNCHANGED <<records, nextId, timers, now, getCalls, lastGet, ret, lastStats,
               poolVars, healthVars, metricsVars>>

\* the retry goroutine after its sleep: put the task back to pending
RetryTimer(tid, err) ==
  /\ <<tid, err>> \in DOMAIN timers
  /\ timers' = DropTimer(timers, <<tid, err>>)
  /\ tasks' = MockUpdateTaskStatus(tasks, tid, TaskStatusPending, err)
  /\ UNCHANGED <<records, nextId, workers, now, getCalls, lastGet, ret, lastStats,
               poolVars, healthVars, metricsVars>>

\* Start, with the mutex free: on a running pool it returns at once; else
\* it sets running and starts the pollers and the cleanup worker; the stop
\* channel is the one NewInboxWorker made
Start ==
  /\ stopper \in {"idle", "returned"}
  /\ IF running
     THEN UNCHANGED <<running, workers, cleaner, stopper>>
     ELSE /\ running' = TRUE
          /\ workers' = [w \in Workers |-> Idle]
          /\ cleaner' = "idle"
          /\ stopper' = "idle"
  /\ UNCHANGED <<records, tasks, nextId, timers, now, getCalls, lastGet, ret,
               lastStats, stopCh, healthVars, metricsVars>>

\* Stop up to wg.Wait, with the mutex free: on a pool that is not running it
\* returns at once; else it clears running and closes the stop channel; the
\* close of a channel that is already closed panics
Stop ==
  /\ stopper \in {"idle", "returned"}
  /\ IF ~running
     THEN UNCHANGED <<running, stopCh, stopper>>
     ELSE /\ running' = FALSE
          /\ stopCh' = TRUE
          /\ stopper' = IF stopCh THEN "panicked" ELSE "waiting"
  /\ UNCHANGED <<records, tasks, nextId, workers, timers, now, getCalls, lastGet,
               ret, lastStats, cleaner, healthVars, metricsVars>>

\* worker: the select takes the stop channel and the goroutine returns
WorkerStops(w) ==
  /\ workers[w].pc = "idle"
  /\ stopCh
  /\ workers' = [workers EXCEPT ![w].pc = "exited"]
  /\ UNCHANGED <<records, tasks, nextId, timers, now, getCalls, lastGet, ret,
               lastStats, poolVars, healthVars, metricsVars>>

\* cleanupWorker: the select takes the stop channel and the goroutine returns
CleanupWorkerStops ==
  /\ cleaner = "idle"
  /\ stopCh
  /\ cleaner' = "exited"
  /\ UNCHANGED <<records, tasks, nextId, workers, timers, now, getCalls, lastGet,
               ret, lastStats, running, stopCh, stopper, healthVars, metricsVars>>

\* a wait that also counts the sleeping retry goroutines
WaitsForRetries ==
  /\ \A w \in Workers : workers[w].pc = "exited"
  /\ cleaner = "exited"
  /\ timers = <<>>

\* a wait that counts the pollers only
PollersDone == \A w \in Workers : workers[w].pc = "exited"

\* wg.Wait is over: every goroutine Start added has called Done
WaitGroupDone ==
  /\ \A w \in Workers : workers[w].pc = "exited"
  /\ cleaner = "exited"

\* Stop after wg.Wait: it returns to its caller
StopReturns ==
  /\ stopper = "waiting"
  /\ WaitGroupDone
  /\ stopper' = "returned"
  /\ UNCHANGED <<records, tasks, nextId, workers, timers, now, getCalls, lastGet,
               ret, lastStats, running, stopCh, cleaner, healthVars, metricsVars>>

\* a main that closes the record store without stopping the pool first
CloseRecordUnstopped ==
  /\ stopper = "idle"
  /\ stopper' = "recordClosed"
  /\ UNCHANGED <<records, tasks, nextId, workers, timers, now, getCalls, lastGet,
               ret, lastStats, running, stopCh, cleaner, healthVars, metricsVars>>

\* main after svc.Close has returned: close the record store
CloseRecord ==
  /\ stopper = "returned"
  /\ stopper' = "recordClosed"
  /\ UNCHANGED <<records, tasks, nextId, workers, timers, now, getCalls, lastGet,
               ret, lastStats, running, stopCh, cleaner, healthVars, metricsVars>>

\* main: then close the inbox store
CloseInbox ==
  /\ stopper = "recordClosed"
  /\ stopper' = "closed"
  /\ UNCHANGED <<records, tasks, nextId, workers, timers, now, getCalls, lastGet,
               ret, lastStats, running, stopCh, cleaner, healthVars, metricsVars>>

\* the stores main has closed so far
RecordStoreClosed == stopper \in {"recordClosed", "closed"}
InboxStoreClosed == stopper = "closed"

\* the retention window cleanupOldTasks passes to DeleteCompletedTasks
RetentionHours == 24

\* cleanupWorker on a tick of its ticker: cleanupOldTasks (its two
\* GetTaskStats calls only feed the log)
CleanupOldTasks ==
  /\ cleaner = "idle"
  /\ tasks' = MockDeleteCompletedTasks(tasks, RetentionHours)
  /\ UNCHANGED <<records, nextId, workers, timers, now, getCalls, lastGet, ret,
               lastStats, poolVars, healthVars, metricsVars>>

\* DeleteCompletedTasks of a Postgres store whose DELETE fails: no row goes
PostgresDeleteCompletedTasksFailed(ts, olderThanHours) == ts

\* cleanupOldTasks on a tick when the delete fails: the error is logged and
\* the function is about to return
CleanupDeleteFails ==
  /\ cleaner = "idle"
  /\ tasks' = PostgresDeleteCompletedTasksFailed(tasks, RetentionHours)
  /\ cleaner' = "deleteFailed"
  /\ UNCHANGED <<records, nextId, workers, timers, now, getCalls, lastGet, ret,
               lastStats, running, stopCh, stopper, healthVars, metricsVars>>

\* a cleanup worker that gives up after a failed delete
CleanupGivesUp ==
  /\ cleaner = "deleteFailed"
  /\ cleaner' = "exited"
  /\ UNCHANGED <<records, tasks, nextId, workers, timers, now, getCalls, lastGet,
               ret, lastStats, running, stopCh, stopper, healthVars, metricsVars>>

\* cleanupOldTasks returns after the failed delete: the cleanup worker is
\* back in its select
CleanupReturns ==
  /\ cleaner = "deleteFailed"
  /\ cleaner' = "idle"
  /\ UNCHANGED <<records, tasks, nextId, workers, timers, now, getCalls, lastGet,
               ret, lastStats, running, stopCh, stopper, healthVars, metricsVars>>

\* time passes
Tick ==
  /\ now < MaxNow
  /\ now' = now + ClockStep
  /\ UNCHANGED <<records, tasks, nextId, workers, timers, getCalls, lastGet, ret,
               lastStats, poolVars, healthVars, metricsVars>>

(* ------------------------- MetricsSnapshot ---------------------------- *)
\* the fields of MetricsSnapshot that GetHealthStatus reads; the two float
\* fields are whole numbers of milliseconds and of megabytes here
ZeroSnapshot ==
  [AvgResponseTime |-> 0, QueueDepth |-> 0, TotalRequests |-> 0,
   FailedRequests |-> 0, MemoryUsageMB |-> 0, GoroutineCount |-> 0]

\* no evaluation made yet
NoHealth == <<>>

\* the HealthStatus GetHealthStatus starts from
FreshHealth == [Status |-> "healthy", Score |-> 100, Issues |-> <<>>, Recommendations |-> <<>>]

\* a deduction whose amount ignores which threshold was passed
FlatBreach(st, level, amount, issue, recommendation) ==
  [Status |-> IF level = "critical" \/ st.Status = "critical" THEN "critical" ELSE "warning",
   Score |-> st.Score - 10,
   Issues |-> Append(st.Issues, issue),
   Recommendations |-> Append(st.Recommendations, recommendation)]

\* a warning that overwrites whatever status was set before it
OverwritingBreach(st, level, amount, issue, recommendation) ==
  [Status |-> level,
   Score |-> st.Score - amount,
   Issues |-> Append(st.Issues, issue),
   Recommendations |-> Append(st.Recommendations, recommendation)]

\* one branch of a check: critical sets the status, warning sets it unless it
\* is critical already; the score drops by the branch's amount; an issue and
\* a recommendation are appended
Breach(st, level, amount, issue, recommendation) ==
  [Status |-> IF level = "critical" \/ st.Status = "critical" THEN "critical" ELSE "warning",
   Score |-> st.Score - amount,
   Issues |-> Append(st.Issues, issue),
   Recommendations |-> Append(st.Recommendations, recommendation)]

\* the response time check
CheckResponseTime(s, st) ==
  IF s.AvgResponseTime > 500
  THEN Breach(st, "critical", 40, "Very high response time (>500ms)",
              "Consider scaling up the service or optimizing database queries")
  ELSE IF s.AvgResponseTime > 100
  THEN Breach(st, "warning", 20, "High response time (>100ms)",
              "Monitor database performance and consider caching")
  ELSE st

\* the queue depth check
CheckQueueDepth(s, st) ==
  IF s.QueueDepth > 500
  THEN Breach(st, "critical", 30, "Very high queue depth (>500)",
              "Increase inbox worker count or check for processing bottlenecks")
  ELSE IF s.QueueDepth > 100
  THEN Breach(st, "warning", 15, "High queue depth (>100)", "Monitor task processing speed")
  ELSE st

\* errorRate > x, for errorRate = float64(failed) / float64(total) * 100 with
\* total > 0: the quotient of two counts that is x percent rounds to the
\* double nearest x/100 and its product with 100 rounds to x, so the float
\* comparison agrees with the one on the counts
ErrorRateAbove(s, x) == s.FailedRequests * 100 > x * s.TotalRequests

\* the error rate check, skipped when no request was counted
CheckErrorRate(s, st) ==
  IF s.TotalRequests > 0
  THEN IF ErrorRateAbove(s, 5)
       THEN Breach(st, "critical", 35, "High error rate (>5%)",
                   "Investigate application errors and system issues")
       ELSE IF ErrorRateAbove(s, 1)
       THEN Breach(st, "warning", 10, "Elevated error rate (>1%)",
                   "Monitor error logs for patterns")
       ELSE st
  ELSE st

\* the memory check
CheckMemory(s, st) ==
  IF s.MemoryUsageMB > 1024
  THEN Breach(st, "critical", 25, "Very high memory usage (>1GB)",
              "Check for memory leaks and consider scaling")
  ELSE IF s.MemoryUsageMB > 512
  THEN Breach(st, "warning", 10, "High memory usage (>512MB)", "Monitor memory usage trends")
  ELSE st

\* the goroutine count check
CheckGoroutines(s, st) ==
  IF s.GoroutineCount > 5000
  THEN Breach(st, "critical", 20, "Very high goroutine count (>5000)",
              "Check for goroutine leaks")
  ELSE IF s.GoroutineCount > 1000
  THEN Breach(st, "warning", 10, "High goroutine count (>1000)", "Monitor goroutine usage")
  ELSE st

\* MetricsSnapshot.GetHealthStatus: the five checks in the order of the code
GetHealthStatus(s) ==
  CheckGoroutines(s, CheckMemory(s, CheckErrorRate(s,
    CheckQueueDepth(s, CheckResponseTime(s, FreshHealth)))))

(* --------------------------- specifications --------------------------- *)
\* no GetTaskStats call made yet
NoStats == <<>>

\* a started pool: Start has set running and launched the goroutines
InitEngine ==
  /\ workers = [w \in Workers |-> Idle]
  /\ timers = <<>>
  /\ now = 0
  /\ getCalls = 0
  /\ lastGet = [id |-> "", result |-> NotFound]
  /\ ret = <<>>
  /\ lastStats = NoStats
  /\ running = TRUE
  /\ stopCh = FALSE
  /\ stopper = "idle"
  /\ cleaner = "idle"
  /\ snapshot = ZeroSnapshot
  /\ health = NoHealth
  /\ metrics = NewMetrics
  /\ setters = [c \in Callers |-> NotCalled]
  /\ ticks = 0

\* the state after construction: empty stores, idle pollers
Init ==
  /\ InitEngine
  /\ records = <<>>
  /\ tasks = <<>>
  /\ nextId = 1

\* the exploration stops fetching once a pending task has been retried this often
BelowRetryCap == \A t \in PendingIds(tasks) : tasks[t].retries < MaxStoredRetries

WorkerStep(w) ==
  \/ BelowRetryCap /\ ProcessTasks(w)
  \/ ProcessTask(w)
  \/ VerifyExisting(w)
  \/ MarkCompleted(w)
  \/ HandleTaskError(w)
  \/ MarkFailed(w)

Timers == \E k \in DOMAIN timers : RetryTimer(k[1], k[2])

Engine ==
  \/ \E w \in Workers : WorkerStep(w)
  \/ Timers

\* the scheduling of the pollers' tickers and of the retry goroutines
EngineFairness ==
  /\ \A w \in Workers : WF_vars(WorkerStep(w))
  /\ WF_vars(Timers)

Produce ==
  \E rid \in RecordIds :
    \/ \E v \in Values : ServiceInsert(rid, v)
    \/ \E v \in Values : ServiceUpdate(rid, v)
    \/ ServiceDelete(rid)

Producer == nextId <= MaxTasks /\ Produce

\* the same calls against a task store whose create fails
ProduceFails ==
  \E rid \in RecordIds :
    \/ \E v \in Values : EnqueueFails(TaskOperationInsert, MarshalValuePayload(rid, v))
    \/ \E v \in Values : EnqueueFails(TaskOperationUpdate, MarshalValuePayload(rid, v))
    \/ EnqueueFails(TaskOperationDelete, MarshalDeletePayload(rid))

Next ==
  \/ Producer
  \/ Engine

\* callers enqueue any mutations while the pool runs
Spec == Init /\ [][Next]_vars

\* one caller enqueues a mutation, another reads
ProducerOnce == nextId <= 1 /\ Produce

Reader ==
  /\ getCalls < MaxGets
  /\ \E rid \in RecordIds : ServiceGet(rid)

NextGet ==
  \/ ProducerOnce
  \/ Reader
  \/ Engine

SpecGet == Init /\ [][NextGet]_vars

\* callers enqueue while the task store fails some creates; one create succeeds
ProducerFirstTask == DOMAIN tasks = {} /\ nextId <= MaxTasks /\ Produce

FailingProducer == nextId <= MaxTasks /\ ProduceFails

NextEnqueue ==
  \/ ProducerFirstTask
  \/ FailingProducer
  \/ Engine

SpecEnqueue == Init /\ [][NextEnqueue]_vars

\* a caller enqueues a mutation, hours pass, the cleanup worker sweeps, and
\* at some point Stop is called; a select with both the ticker and the stop
\* channel ready takes either
Shutdown ==
  \/ Stop
  \/ \E w \in Workers : WorkerStops(w)
  \/ CleanupWorkerStops
  \/ StopReturns

NextStop ==
  \/ ProducerOnce
  \/ Engine
  \/ Tick
  \/ CleanupOldTasks
  \/ Shutdown

SpecStop == Init /\ [][NextStop]_vars

\* the process is told to shut down at some point: main stops the pool
\* through Service.Close and then closes the two stores
NextShutdown ==
  \/ NextStop
  \/ CloseRecord
  \/ CloseInbox

SpecShutdown == Init /\ [][NextShutdown]_vars

\* Stop is called and returns within the retry delay: the retry goroutines
\* started before it wake up after it has returned
NextLateRetry ==
  \/ ProducerOnce
  \/ \E w \in Workers : WorkerStep(w)
  \/ Shutdown
  \/ stopper = "returned" /\ Timers

SpecLateRetry == Init /\ [][NextLateRetry]_vars

\* the pool is stopped and started again while a caller's task is processed;
\* a panic ends the process
Alive == stopper # "panicked"

NextRestart ==
  \/ Alive /\ ProducerOnce
  \/ Alive /\ Engine
  \/ Alive /\ Shutdown
  \/ Alive /\ Start

\* store calls return and tickers fire; a goroutine whose select finds the
\* stop channel ready from some point on takes it, and wg.Wait returns once
\* the counter is zero
StopFairness ==
  /\ EngineFairness
  /\ \A w \in Workers : WF_vars(WorkerStops(w))
  /\ WF_vars(CleanupWorkerStops)
  /\ WF_vars(StopReturns)

SpecRestart == Init /\ [][NextRestart]_vars /\ StopFairness

\* the record ids of the statistics test
TestIds == <<"test_0", "test_1", "test_2">>

\* a caller inserts records with distinct ids and then deletes a record that
\* was never inserted, another asks for the statistics
StatsClient ==
  \/ nextId <= MaxTasks /\ ServiceInsert(TestIds[nextId], ValA)
  \/ nextId = MaxTasks + 1 /\ ServiceDelete("missing")

NextStats ==
  \/ StatsClient
  \/ ServiceGetTaskStats
  \/ Engine

SpecStats == Init /\ [][NextStats]_vars

\* snapshots at and just above every threshold, with no requests counted and
\* with error rates of 0, 1, 2, 5 and 6 percent
Snapshots ==
  {s \in [AvgResponseTime : {100, 101, 500, 501},
          QueueDepth : {100, 101, 500, 501},
          TotalRequests : {0, 100},
          FailedRequests : {0, 1, 2, 5, 6},
          MemoryUsageMB : {512, 513, 1024, 1025},
          GoroutineCount : {1000, 1001, 5000, 5001}] :
     s.FailedRequests <= s.TotalRequests}

\* a snapshot is taken
TakeSnapshot ==
  /\ snapshot' \in Snapshots
  /\ health' = NoHealth
  /\ UNCHANGED <<records, tasks, nextId, workers, timers, now, getCalls, lastGet,
               ret, lastStats, poolVars, metricsVars>>

\* the health of the snapshot is evaluated
EvaluateHealth ==
  /\ snapshot # ZeroSnapshot
  /\ health' = GetHealthStatus(snapshot)
  /\ UNCHANGED <<records, tasks, nextId, workers, timers, now, getCalls, lastGet,
               ret, lastStats, poolVars, snapshot, metricsVars>>

NextHealth ==
  \/ TakeSnapshot
  \/ EvaluateHealth

SpecHealth == Init /\ [][NextHealth]_vars

\* callers enqueue more tasks than a batch holds and list the tasks while
\* the pool runs
NextBacklog ==
  \/ StatsClient
  \/ Engine
  \/ ServiceGetTasks

SpecBacklog == Init /\ [][NextBacklog]_vars

\* the pool runs against a task store whose delete can fail, until Stop
NextSweepFails ==
  \/ NextStop
  \/ CleanupDeleteFails
  \/ CleanupReturns

SpecSweepFails == Init /\ [][NextSweepFails]_vars

\* requests and task executions are recorded as time passes
NextRates ==
  \/ metrics.totalRequests + metrics.totalTasks < MaxRecords
     /\ \E success \in BOOLEAN : RecordHTTPRequest(success)
  \/ metrics.totalRequests + metrics.totalTasks < MaxRecords
     /\ \E success \in BOOLEAN : RecordTaskExecution(success)
  \/ HalfSecond

SpecRates == Init /\ [][NextRates]_vars

\* goroutines call SetQueueDepth at the same time, each with its own depth
NextQueueDepth ==
  \/ \E c \in Callers, depth \in Depths : CallSetQueueDepth(c, depth)
  \/ \E c \in Callers : StoreQueueDepth(c)
  \/ \E c \in Callers : LoadMaxQueueDepth(c)
  \/ \E c \in Callers : CompareAndSwapMaxQueueDepth(c)

SpecQueueDepth == Init /\ [][NextQueueDepth]_vars

\* the select loop of a poller, every tick taken
WorkerLoop(w) ==
  \/ ProcessTasks(w)
  \/ ProcessTask(w)
  \/ VerifyExisting(w)
  \/ MarkCompleted(w)
  \/ HandleTaskError(w)
  \/ MarkFailed(w)

Pool ==
  \/ \E w \in Workers : WorkerLoop(w)
  \/ Timers

\* tickers keep firing and sleeping retry goroutines wake up
PoolFairness ==
  /\ \A w \in Workers : WF_vars(WorkerLoop(w))
  /\ WF_vars(Timers)

\* callers enqueue inserts of one record while the pool runs
InsertProducer ==
  /\ nextId <= MaxTasks
  /\ \E rid \in RecordIds, v \in Values : ServiceInsert(rid, v)

NextDelivery ==
  \/ InsertProducer
  \/ Pool

SpecDelivery == Init /\ [][NextDelivery]_vars /\ PoolFairness

\* callers enqueue inserts at different hours while the pool runs
NextFetch ==
  \/ InsertProducer
  \/ Tick
  \/ Engine

SpecFetch == Init /\ [][NextFetch]_vars

\* a task whose operation the engine does not know is in the inbox when the
\* pool starts; callers enqueue inserts beside it
InitInvalid ==
  /\ InitEngine
  /\ records = <<>>
  /\ nextId = 2
  /\ tasks = Put(<<>>, 1, TaskOf(1, "archive", MarshalDeletePayload("u1"), 0))

SpecInvalid == InitInvalid /\ [][NextDelivery]_vars /\ PoolFairness

\* two insert tasks for one record id are in the inbox when the pool starts
InitInserts ==
  /\ InitEngine
  /\ records = <<>>
  /\ nextId = 3
  /\ \E v1 \in Values, v2 \in Values :
       tasks = Put(Put(<<>>, 1, TaskOf(1, TaskOperationInsert, MarshalValuePayload("u1", v1), 0)),
                   2, TaskOf(2, TaskOperationInsert, MarshalValuePayload("u1", v2), 0))

SpecInserts == InitInserts /\ [][Engine]_vars /\ EngineFairness

\* no poller holds the task and no retry goroutine of it is asleep
Released(tid) ==
  /\ \A w \in Workers : \A i \in DOMAIN workers[w].batch : workers[w].batch[i].id # tid
  /\ \A k \in DOMAIN timers : k[1] # tid

\* the engine is done with the task
Processed(tid) ==
  /\ tid \in DOMAIN tasks
  /\ tasks[tid].status \in {TaskStatusCompleted, TaskStatusFailed}
  /\ Released(tid)

\* a caller enqueues insert, update, delete of one record, each after the
\* engine is done with the one before
CrudClient ==
  \/ nextId = 1 /\ ServiceInsert("u1", ValA)
  \/ nextId = 2 /\ Processed(1) /\ ServiceUpdate("u1", ValB)
  \/ nextId = 3 /\ Processed(2) /\ ServiceDelete("u1")

NextCrud ==
  \/ CrudClient
  \/ Engine

SpecCrud == Init /\ [][NextCrud]_vars

\* insert, update, delete of one record, hours passing, the cleanup worker
\* sweeping
NextCleanup ==
  \/ CrudClient
  \/ Engine
  \/ Tick
  \/ CleanupOldTasks

SpecCleanup == Init /\ [][NextCleanup]_vars

(* ------------------------------- claims -------------------------------- *)
Holds(w, tid) == \E i \in DOMAIN workers[w].batch : workers[w].batch[i].id = tid

\* C1: claim exclusivity: no task is held (fetched and not yet resolved) by
\* two pollers at the same time.
ClaimExclusivity ==
  \A w1 \in Workers, w2 \in Workers :
    w1 # w2 => \A t \in DOMAIN tasks : ~(Holds(w1, t) /\ Holds(w2, t))

AllowedTransition(from, to) ==
  \/ from = TaskStatusPending /\ to = TaskStatusProcessing
  \/ from = TaskStatusProcessing
       /\ to \in {TaskStatusCompleted, TaskStatusPending, TaskStatusFailed}

\* C2: every change of a stored status is pending->processing,
\* processing->completed, processing->pending or processing->failed, a new
\* task starts pending, and a task is processing while a poller applies it.
StatusStateMachine ==
  [][/\ \A t \in DOMAIN tasks' :
          IF t \in DOMAIN tasks
          THEN \/ tasks'[t].status = tasks[t].status
               \/ AllowedTransition(tasks[t].status, tasks'[t].status)
          ELSE tasks'[t].status = TaskStatusPending
     /\ \A w \in Workers :
          workers'[w].pc # "idle" /\ Head(workers'[w].batch).id \in DOMAIN tasks'
            => tasks'[Head(workers'[w].batch).id].status = TaskStatusProcessing]_vars

Terminal(status) == status \in {TaskStatusCompleted, TaskStatusFailed}

\* C3: terminal states are absorbing: no step of a poller or of a retry
\* timer changes the status of a completed or failed task.
TerminalAbsorbing ==
  [][\A t \in DOMAIN tasks :
       Terminal(tasks[t].status)
         => t \in DOMAIN tasks' /\ tasks'[t].status = tasks[t].status]_vars

\* apply attempts made on a task all of whose attempts failed: the failures
\* counted in retries and those whose increment is still to come
FailedAttempts(tid) ==
  tasks[tid].retries
    + Cardinality({w \in Workers : workers[w].pc = "increment" /\ Current(w).id = tid})

\* in SpecInserts a task that has failed once fails on every attempt: the
\* record it collides with is never changed
AlwaysFails(tid) ==
  /\ Unmarshal(tasks[tid].payload.value) # Unmarshal(tasks[3 - tid].payload.value)
  /\ "u1" \in DOMAIN records
  /\ records["u1"] # Unmarshal(tasks[tid].payload.value)

\* C4: retry exhaustion: a task whose apply fails on every attempt has been
\* applied exactly maxRetries times when it becomes failed, and its stored
\* retries is maxRetries then.
RetryExhaustion ==
  \A t \in DOMAIN tasks :
    AlwaysFails(t) /\ tasks[t].status = TaskStatusFailed
      => tasks[t].retries = maxRetries /\ FailedAttempts(t) = maxRetries

\* C5: handling a failed apply moves on to marking the task failed exactly
\* when retries after the increment is at or above maxRetries (and schedules
\* a retry otherwise), so no task with retries at the maximum is pending.
FailedAtMaxRetries ==
  [][/\ \A w \in Workers :
          workers[w].pc = "increment" /\ workers'[w] # workers[w]
            /\ Current(w).id \in DOMAIN tasks'
            => (tasks'[Current(w).id].retries >= maxRetries
                  <=> workers'[w].pc = "markFailed")
     /\ \A t \in DOMAIN tasks' :
          tasks'[t].retries >= maxRetries => tasks'[t].status # TaskStatusPending]_vars

\* the document an insert task carries
InsertValue(tid) == Unmarshal(tasks[tid].payload.value)

\* the two insert tasks of SpecInserts carry the same document
SameValues == InsertValue(1) = InsertValue(2)

BothCompleted ==
  /\ tasks[1].status = TaskStatusCompleted
  /\ tasks[2].status = TaskStatusCompleted
  /\ DOMAIN records = {"u1"}
  /\ records["u1"] = InsertValue(1)

\* C6: idempotent insert: two insert tasks for one record id with identical
\* values both end completed, under any interleaving of the pollers, and the
\* record store holds one record for the id, with that value.
IdempotentInsert == SameValues => <>[]BothCompleted

IdempotentInsertDone ==
  /\ SameValues
  /\ BothCompleted
  /\ \A w \in Workers : workers[w].pc = "idle"
  /\ tasks[1].retries = 0 /\ tasks[2].retries = 0

\* pollers idle, no retry goroutine asleep, nothing pending
Quiescent ==
  /\ \A w \in Workers : workers[w].pc = "idle"
  /\ DOMAIN timers = {}
  /\ PendingIds(tasks) = {}

\* C7: insert conflict: of two insert tasks for one record id with differing
\* values, once the engine has come to rest one is completed and the other is
\* failed after maxRetries retries, and the record store holds one record for
\* the id, with the value of the completed (first applied) insert.
InsertConflict ==
  ~SameValues /\ Quiescent
    => \E a \in {1, 2} :
         LET b == 3 - a
         IN  /\ tasks[a].status = TaskStatusCompleted
             /\ tasks[b].status = TaskStatusFailed
             /\ tasks[b].retries = maxRetries
             /\ DOMAIN records = {"u1"}
             /\ records["u1"] = InsertValue(a)

\* the record store reflects the task's payload
Reflects(task, recs) ==
  IF task.operation = TaskOperationDelete
  THEN task.payload.id \notin DOMAIN recs
  ELSE /\ task.payload.id \in DOMAIN recs
       /\ recs[task.payload.id] = Unmarshal(task.payload.value)

\* C8: right after an apply that succeeds the record store reflects the
\* task's payload: the whole value for insert and update, no record for delete.
ApplyReflectsPayload ==
  [][\A w \in Workers :
       workers[w].pc \in {"apply", "verify"} /\ workers'[w].pc = "complete"
         => Reflects(Current(w), records')]_vars

UpdateApplied ==
  \E w \in Workers :
    /\ workers[w].pc = "complete"
    /\ Current(w).operation = TaskOperationUpdate
    /\ Current(w).payload.value = Marshal(ValB)
    /\ records = Put(<<>>, "u1", ValB)
    /\ \E t \in DOMAIN tasks :
         tasks[t].operation = TaskOperationInsert /\ InsertValue(t) = ValA

GetMissingNoQueue ==
  [][getCalls' # getCalls /\ lastGet'.id \notin DOMAIN records
       => /\ lastGet'.result = NotFound
          /\ tasks' = tasks
          /\ nextId' = nextId
          /\ records' = records
          /\ workers' = workers
          /\ timers' = timers]_vars

GetMissingWhilePending ==
  /\ getCalls = 1
  /\ lastGet.result = NotFound
  /\ lastGet.id \notin DOMAIN records
  /\ \E t \in PendingIds(tasks) :
       tasks[t].operation = TaskOperationInsert /\ tasks[t].payload.id = lastGet.id

\* the step adds one pending task for the call and changes nothing else
Added(op, rid) ==
  /\ nextId \notin DOMAIN tasks
  /\ DOMAIN tasks' = DOMAIN tasks \cup {nextId}
  /\ tasks'[nextId].operation = op
  /\ tasks'[nextId].payload.id = rid
  /\ tasks'[nextId].status = TaskStatusPending
  /\ tasks'[nextId].retries = 0
  /\ \A t \in DOMAIN tasks : tasks'[t] = tasks[t]
  /\ records' = records

\* C11: each Insert, Update or Delete call of the producer adds exactly one
\* new task with the matching operation, pending, retries 0, and leaves the
\* records and the existing tasks as they are; the records change only in a
\* step in which a poller applies a task.
EnqueueFrame ==
  [][/\ \A rid \in RecordIds :
          /\ \A v \in Values : ServiceInsert(rid, v) => Added(TaskOperationInsert, rid)
          /\ \A v \in Values : ServiceUpdate(rid, v) => Added(TaskOperationUpdate, rid)
          /\ ServiceDelete(rid) => Added(TaskOperationDelete, rid)
     /\ DOMAIN tasks' # DOMAIN tasks => \E op \in {TaskOperationInsert, TaskOperationUpdate, TaskOperationDelete} :
                                          \E rid \in RecordIds : Added(op, rid)
     /\ records' # records
          => \E w \in Workers : workers[w].pc = "apply" /\ workers'[w].pc # "apply"]_vars

EnqueuedBesideRecord ==
  /\ nextId = 3
  /\ tasks[1].status = TaskStatusCompleted
  /\ tasks[2].operation = TaskOperationUpdate
  /\ tasks[2].status = TaskStatusPending
  /\ tasks[2].retries = 0
  /\ "u1" \in DOMAIN records
  /\ records["u1"] # Unmarshal(tasks[2].payload.value)

\* C12: a producer call whose durable create fails returns the error, leaves
\* the task store and the record store as they were, and no task for that
\* call exists then or later (nothing retries the create).
EnqueueFailure ==
  /\ [](\A i \in DOMAIN ret : ret[i] = ErrCreateTask => i \notin DOMAIN tasks)
  /\ [][\A i \in DOMAIN ret' \ DOMAIN ret :
         ret'[i] = ErrCreateTask => tasks' = tasks /\ records' = records]_vars

CreateFailedBesideTask ==
  \E i \in DOMAIN ret :
    /\ ret[i] = ErrCreateTask
    /\ i \notin DOMAIN tasks
    /\ \E t \in DOMAIN tasks : t < i /\ tasks[t].status = TaskStatusCompleted
    /\ "u1" \in DOMAIN records

\* C13: at-least-once delivery with bounded retry: under fair scheduling of
\* the pollers and the retry timers every task the producer accepted ends
\* completed or failed for good, after at most maxRetries failed attempts.
BoundedRetryDelivery ==
  \A t \in 1..MaxTasks :
    [](t \in DOMAIN tasks
         => <>[](/\ t \in DOMAIN tasks
                 /\ Terminal(tasks[t].status)
                 /\ tasks[t].retries <= maxRetries))

\* C14: a cleanup sweep deletes every completed or failed task whose
\* updated_at is older than the retention window and keeps, unchanged, every
\* completed or failed task whose updated_at is newer than the window.
CleanupSweep ==
  [][CleanupOldTasks
       => \A t \in DOMAIN tasks :
            Terminal(tasks[t].status)
              => /\ tasks[t].updated_at < now - RetentionHours => t \notin DOMAIN tasks'
                 /\ tasks[t].updated_at > now - RetentionHours
                      => t \in DOMAIN tasks' /\ tasks'[t] = tasks[t]]_vars

SweptOldKeptNew ==
  /\ nextId >= 3
  /\ 1 \notin DOMAIN tasks
  /\ 2 \in DOMAIN tasks
  /\ Terminal(tasks[2].status)
  /\ tasks[2].updated_at > now - RetentionHours

\* C15: Stop returns only when every poller and the cleanup worker have
\* exited, and after it has returned none of them fetches, applies, updates
\* a status or sweeps.
StopBlocks ==
  /\ [](stopper = "returned"
          => (\A w \in Workers : workers[w].pc = "exited") /\ cleaner = "exited")
  /\ [][stopper = "returned"
          => /\ workers' = workers
             /\ cleaner' = cleaner
             /\ records' = records
             /\ \A w \in Workers : ~WorkerStep(w)
             /\ DOMAIN tasks \subseteq DOMAIN tasks']_vars

StoppedWithWorkLeft ==
  /\ stopper = "returned"
  /\ \A w \in Workers : workers[w].pc = "exited"
  /\ cleaner = "exited"
  /\ PendingIds(tasks) # {}
  /\ \E t \in DOMAIN tasks : tasks[t].retries > 0

\* C16: once the stop channel is closed no poller starts a polling tick: a
\* poller waiting in its select does not go on to process a fetched batch.
NoTickAfterStop ==
  [][\A w \in Workers :
       stopCh /\ workers[w].pc = "idle" => workers'[w].pc \in {"idle", "exited"}]_vars

\* C17: the statistics match the task table at the time of the call: total
\* is the number of stored tasks, each status count is the number of stored
\* tasks in that status, total is the sum of the four, and once MaxTasks
\* inserts of distinct ids are enqueued and processed completed is at least
\* MaxTasks.
StatsMatchTasks ==
  [][lastStats' # lastStats
       => /\ lastStats'.TotalTasks = Cardinality(DOMAIN tasks)
          /\ lastStats'.PendingTasks = Cardinality(PendingIds(tasks))
          /\ lastStats'.ProcessingTasks
               = Cardinality({t \in DOMAIN tasks : tasks[t].status = TaskStatusProcessing})
          /\ lastStats'.CompletedTasks
               = Cardinality({t \in DOMAIN tasks : tasks[t].status = TaskStatusCompleted})
          /\ lastStats'.FailedTasks
               = Cardinality({t \in DOMAIN tasks : tasks[t].status = TaskStatusFailed})
          /\ lastStats'.TotalTasks
               = lastStats'.PendingTasks + lastStats'.ProcessingTasks
                   + lastStats'.CompletedTasks + lastStats'.FailedTasks
          /\ (\A t \in 1..MaxTasks : t \in DOMAIN tasks /\ Terminal(tasks[t].status))
               => lastStats'.CompletedTasks >= MaxTasks]_vars

StatsAfterInserts ==
  /\ lastStats # NoStats
  /\ lastStats.TotalTasks = MaxTasks
  /\ lastStats.CompletedTasks = MaxTasks
  /\ \A t \in 1..MaxTasks : t \in DOMAIN tasks /\ tasks[t].status = TaskStatusCompleted
  /\ \A i \in 1..MaxTasks : TestIds[i] \in DOMAIN records

\* what an axis deducts: the critical amount above the critical threshold,
\* else the warning amount above the warning threshold, else nothing
Deduction(value, warning, critical, warningAmount, criticalAmount) ==
  IF value > critical THEN criticalAmount
  ELSE IF value > warning THEN warningAmount
  ELSE 0

Evaluated == health # NoHealth

\* the level of each of the five axes of a snapshot: 2 critical, 1 warning
AxisLevels(s) ==
  <<Deduction(s.AvgResponseTime, 100, 500, 1, 2),
    Deduction(s.QueueDepth, 100, 500, 1, 2),
    IF s.TotalRequests > 0
    THEN Deduction(100 * s.FailedRequests, 1 * s.TotalRequests, 5 * s.TotalRequests, 1, 2)
    ELSE 0,
    Deduction(s.MemoryUsageMB, 512, 1024, 1, 2),
    Deduction(s.GoroutineCount, 1000, 5000, 1, 2)>>

\* C18: the score is 100 minus the deductions of the five axes: response
\* time >100/>500 ms 20/40, queue depth >100/>500 15/30, error rate
\* >1%/>5% 10/35, memory >512/>1024 MB 10/25, goroutines >1000/>5000 10/20;
\* a value equal to a threshold does not pass it.
HealthScore ==
  Evaluated
    => health.Score
         = 100 - Deduction(snapshot.AvgResponseTime, 100, 500, 20, 40)
               - Deduction(snapshot.QueueDepth, 100, 500, 15, 30)
               - (IF snapshot.TotalRequests > 0
                  THEN Deduction(100 * snapshot.FailedRequests,
                                 1 * snapshot.TotalRequests, 5 * snapshot.TotalRequests, 10, 35)
                  ELSE 0)
               - Deduction(snapshot.MemoryUsageMB, 512, 1024, 10, 25)
               - Deduction(snapshot.GoroutineCount, 1000, 5000, 10, 20)

ScoredAtThresholds ==
  /\ Evaluated
  /\ snapshot.AvgResponseTime = 501
  /\ snapshot.QueueDepth = 500
  /\ snapshot.TotalRequests = 100
  /\ snapshot.FailedRequests = 5
  /\ snapshot.MemoryUsageMB = 512
  /\ snapshot.GoroutineCount = 1001
  /\ health.Score = 25

\* C19: the status is critical when some axis is above its critical
\* threshold, warning when none is and some axis is above its warning
\* threshold, and healthy otherwise; a later warning does not lower critical.
HealthStatusEscalates ==
  Evaluated
    => LET levels == AxisLevels(snapshot)
       IN  health.Status
             = IF \E i \in DOMAIN levels : levels[i] = 2 THEN "critical"
               ELSE IF \E i \in DOMAIN levels : levels[i] = 1 THEN "warning"
               ELSE "healthy"

WarningAfterCritical ==
  /\ Evaluated
  /\ snapshot.AvgResponseTime = 501
  /\ snapshot.QueueDepth = 100
  /\ snapshot.TotalRequests = 0
  /\ snapshot.MemoryUsageMB = 512
  /\ snapshot.GoroutineCount = 1001
  /\ health.Status = "critical"
  /\ Len(health.Issues) = 2

\* C20: the score is in the range 0 to 100 for every snapshot.
HealthScoreRange == Evaluated => health.Score >= 0 /\ health.Score <= 100

\* a retry goroutine of the task is asleep
Sleeping(tid) == \E k \in DOMAIN timers : k[1] = tid

\* C21: a task that failed below the maximum is re-fetched only after its
\* retry timer has fired: while a retry goroutine of a task is asleep no
\* poller fetches the task.
RetryDelayRespected ==
  [][\A w \in Workers :
       workers[w].pc = "idle" /\ workers'[w].pc = "apply"
         => \A i \in DOMAIN workers'[w].batch : ~Sleeping(workers'[w].batch[i].id)]_vars

KnownOperations == {TaskOperationInsert, TaskOperationUpdate, TaskOperationDelete}

\* C22: a task whose operation is not insert, update or delete fails on every
\* attempt with the error "invalid task operation" and without a change of
\* the records, each failure is counted in retries, and the task ends failed.
InvalidOperationFails ==
  /\ [][\A w \in Workers :
          /\ workers[w].pc = "apply"
          /\ Current(w).operation \notin KnownOperations
          /\ workers'[w] # workers[w]
          => /\ records' = records
             /\ workers'[w].pc = "increment"
             /\ workers'[w].err = "invalid task operation"]_vars
  /\ [][\A w \in Workers :
          /\ workers[w].pc = "increment"
          /\ Current(w).operation \notin KnownOperations
          /\ workers'[w] # workers[w]
          => tasks'[Current(w).id].retries = tasks[Current(w).id].retries + 1]_vars
  /\ <>[](tasks[1].status = TaskStatusFailed /\ tasks[1].error = "invalid task operation")

InvalidOperationFailed ==
  /\ tasks[1].operation \notin KnownOperations
  /\ tasks[1].status = TaskStatusFailed
  /\ tasks[1].error = "invalid task operation"
  /\ tasks[1].retries > maxRetries
  /\ Released(1)
  /\ records = Put(<<>>, "u1", ValA)

\* the worker applies an update or a delete whose record is missing
AppliesToMissing(w) ==
  /\ workers[w].pc = "apply"
  /\ Current(w).operation \in {TaskOperationUpdate, TaskOperationDelete}
  /\ Current(w).payload.id \notin DOMAIN records
  /\ workers'[w] # workers[w]

\* C23: an update or delete whose record does not exist at apply time is a
\* failed attempt: it creates no record, the task is not marked completed by
\* it, and the worker takes the retry path.
MissingTargetFails ==
  /\ [][\A w \in Workers :
          AppliesToMissing(w)
            => /\ records' = records
               /\ tasks' = tasks
               /\ workers'[w].pc = "increment"
               /\ workers'[w].err # ErrNone]_vars
  /\ [][\A w \in Workers :
          workers[w].pc \in {"increment", "markFailed"} /\ workers'[w] # workers[w]
            => tasks'[Current(w).id].status \in {tasks[Current(w).id].status, TaskStatusFailed}]_vars

MissingTargetRetried ==
  /\ records = <<>>
  /\ 1 \in DOMAIN tasks
  /\ tasks[1].operation = TaskOperationUpdate
  /\ tasks[1].status = TaskStatusPending
  /\ tasks[1].retries = 1
  /\ Sleeping(1)
  /\ \A w \in Workers : workers[w].pc = "idle"

\* the batch a poller has just fetched, as the task store held it then
Fetched(w) == workers[w].pc = "idle" /\ workers'[w].pc = "apply"

\* C24: a fetch returns at most BatchSize tasks, all pending at the time of
\* the fetch, in ascending created_at order, and no pending task older than a
\* returned one is left out.
FetchOldestFirst ==
  [][\A w \in Workers :
       Fetched(w)
         => LET batch == workers'[w].batch
                ids == {batch[i].id : i \in DOMAIN batch}
            IN  /\ Len(batch) <= BatchSize
                /\ \A i \in DOMAIN batch : batch[i].id \in PendingIds(tasks)
                /\ \A i \in DOMAIN batch : \A j \in DOMAIN batch :
                     i < j => batch[i].created_at <= batch[j].created_at
                /\ \A t \in PendingIds(tasks) \ ids :
                     \A i \in DOMAIN batch : tasks[t].created_at >= batch[i].created_at]_vars

\* the poller w takes a step of the given position on its current task
Steps(w, pc) == workers[w].pc = pc /\ workers'[w] # workers[w]

\* C25: the handling of a task whose apply succeeded ends with the task
\* stored as completed with an empty last_error; afterwards the task is never
\* stored as pending or processing again and no poller applies it again.
SuccessCompletesOnce ==
  /\ [][\A w \in Workers :
          Steps(w, "complete") /\ Current(w).id \in DOMAIN tasks
            => /\ tasks'[Current(w).id].status = TaskStatusCompleted
               /\ tasks'[Current(w).id].error = ErrNone]_vars
  /\ [][\A t \in DOMAIN tasks :
          tasks[t].status = TaskStatusCompleted /\ t \in DOMAIN tasks'
            => tasks'[t].status \notin {TaskStatusPending, TaskStatusProcessing}]_vars
  /\ [][\A w \in Workers :
          Steps(w, "apply") /\ Current(w).id \in DOMAIN tasks
            => tasks[Current(w).id].status # TaskStatusCompleted]_vars

\* C26: last_error is set on failure and cleared on success: a failed task
\* carries a non-empty error, a completed task an empty one, the step that
\* marks a task failed stores the error of the apply that has just failed, and
\* a retry timer stores the error of the attempt that started it.
LastErrorTracksOutcome ==
  /\ [][\A t \in DOMAIN tasks' :
          /\ tasks'[t].status = TaskStatusFailed => tasks'[t].error # ErrNone
          /\ tasks'[t].status = TaskStatusCompleted => tasks'[t].error = ErrNone]_vars
  /\ [][\A w \in Workers :
          Steps(w, "markFailed") /\ Current(w).id \in DOMAIN tasks
            => /\ tasks'[Current(w).id].status = TaskStatusFailed
               /\ tasks'[Current(w).id].error = workers[w].err]_vars
  /\ [][\A k \in DOMAIN timers :
          (k \notin DOMAIN timers' \/ timers'[k] < timers[k]) /\ k[1] \in DOMAIN tasks
            => /\ tasks'[k[1]].status = TaskStatusPending
               /\ tasks'[k[1]].error = k[2]]_vars

\* a task failed for good after retries, its error that of the last attempt
FailedWithLastError ==
  \E t \in DOMAIN tasks :
    /\ tasks[t].status = TaskStatusFailed
    /\ tasks[t].error = ErrInsertConflict
    /\ tasks[t].retries > maxRetries
    /\ Released(t)
    /\ \E u \in DOMAIN tasks : tasks[u].status = TaskStatusCompleted /\ tasks[u].error = ErrNone

\* the pollers whose apply of task tid has failed and is not yet counted
Uncounted(tid) ==
  Cardinality({w \in Workers : workers[w].pc = "increment" /\ Current(w).id = tid})

\* C27: a stored retries counter is non-negative and never decreases; each
\* failed apply attempt adds exactly one to it, when handleTaskError counts the
\* attempt, and no other step changes it, a successful apply included.
RetriesCountFailures ==
  /\ [][\A t \in DOMAIN tasks' : tasks'[t].retries >= 0]_vars
  /\ [][\A t \in DOMAIN tasks :
          t \in DOMAIN tasks'
            => tasks'[t].retries =
                 tasks[t].retries
                   + Cardinality({w \in Workers : Steps(w, "increment") /\ Current(w).id = t})]_vars
  /\ [][\A w \in Workers :
          Steps(w, "apply")
            => \A t \in DOMAIN tasks :
                 Uncounted(t)' = Uncounted(t)
                   + (IF Current(w).id = t /\ workers'[w].pc = "increment" THEN 1 ELSE 0)]_vars

\* a task counted once per failed attempt beside one whose applies succeeded
RetriesCounted ==
  \E t \in DOMAIN tasks : \E u \in DOMAIN tasks :
    /\ tasks[t].retries = maxRetries + 1
    /\ tasks[t].status = TaskStatusFailed
    /\ tasks[u].status = TaskStatusCompleted
    /\ tasks[u].retries = 0
    /\ Released(t) /\ Released(u)

\* C28: a call of Stop on a running pool gets to its wait for the pollers and
\* the cleanup worker, and the wait ends: Stop returns.
StopTerminates ==
  /\ [][running /\ ~running' => stopper' = "waiting"]_vars
  /\ (stopper = "waiting" ~> stopper = "returned")

\* C29: retry goroutines are not among those Stop waits for: Stop can return
\* as soon as the pollers and the cleanup worker have exited, whatever retry
\* goroutines are asleep, and a retry goroutine that wakes after Stop has
\* returned still writes its task's status, pending, and its error.
RetryOutlivesStop ==
  /\ [](stopper = "waiting" /\ (\A w \in Workers : workers[w].pc = "exited")
          /\ cleaner = "exited"
          => ENABLED StopReturns)
  /\ [](stopper = "returned" => \A k \in DOMAIN timers : ENABLED RetryTimer(k[1], k[2]))
  /\ [][stopper = "returned" /\ timers' # timers
          => \E k \in DOMAIN timers :
               /\ timers' = DropTimer(timers, k)
               /\ tasks'[k[1]].status = TaskStatusPending
               /\ tasks'[k[1]].error = k[2]
               /\ tasks'[k[1]].updated_at = now]_vars

\* Stop has returned and the retry goroutine started before it has since
\* written pending over the status a poller had stored
RetryWroteAfterStop ==
  /\ stopper = "returned"
  /\ \A w \in Workers : workers[w].pc = "exited"
  /\ timers = <<>>
  /\ \E t \in DOMAIN tasks :
       /\ tasks[t].status = TaskStatusPending
       /\ tasks[t].error # ErrNone
       /\ tasks[t].retries > 0

\* C30: main closes the record store and the inbox store only after Stop has
\* returned; while a store is closed every poller and the cleanup worker has
\* exited, and none of them takes a step or changes a record.
StoresClosedAfterStop ==
  /\ [][~RecordStoreClosed /\ RecordStoreClosed' => stopper = "returned"]_vars
  /\ [][~InboxStoreClosed /\ InboxStoreClosed' => RecordStoreClosed]_vars
  /\ [](RecordStoreClosed \/ InboxStoreClosed
          => /\ ~running
             /\ \A w \in Workers : workers[w].pc = "exited"
             /\ cleaner = "exited")
  /\ [][RecordStoreClosed \/ InboxStoreClosed
          => /\ workers' = workers
             /\ cleaner' = cleaner
             /\ records' = records
             /\ DOMAIN tasks \subseteq DOMAIN tasks']_vars

\* both stores closed after a shutdown that left work in the inbox
ClosedAfterStop ==
  /\ InboxStoreClosed
  /\ RecordStoreClosed
  /\ \A w \in Workers : workers[w].pc = "exited"
  /\ cleaner = "exited"
  /\ tasks # <<>>
  /\ now > 0

\* the fields of a task that are fixed at its creation
Identity(task) == <<task.id, task.operation, task.payload, task.created_at>>

\* C31: id, operation, payload and created_at of a stored task never change:
\* a fetch hands out the tasks as stored and changes none, and every step
\* that changes a stored task leaves these four fields as they were.
TaskIdentityImmutable ==
  /\ [][\A t \in DOMAIN tasks :
          t \in DOMAIN tasks' => Identity(tasks'[t]) = Identity(tasks[t])]_vars
  /\ [][\A w \in Workers :
          Fetched(w)
            => /\ tasks' = tasks
               /\ \A i \in DOMAIN workers'[w].batch :
                    workers'[w].batch[i] = tasks[workers'[w].batch[i].id]]_vars
  /\ [](\A t \in DOMAIN tasks : tasks[t].id = t)

\* a task whose status and retries were written hours after its creation
UpdatedLongAfterCreation ==
  \E t \in DOMAIN tasks :
    /\ tasks[t].created_at = 0
    /\ tasks[t].updated_at > 0
    /\ tasks[t].retries > 0
    /\ tasks[t].status = TaskStatusFailed
    /\ tasks[t].operation = TaskOperationDelete

\* the callers whose SetQueueDepth call has returned
Done == {c \in Callers : setters[c].pc = "returned"}

\* no SetQueueDepth call is under way
CallsCompleted == \A c \in Callers : setters[c].pc \in {"idle", "returned"}

\* the largest depth passed to a call so far, 0 if there was none
LargestDepth ==
  LET passed == {setters[c].depth : c \in {d \in Callers : setters[d].pc # "idle"}} \cup {0}
  IN  CHOOSE x \in passed : \A y \in passed : y <= x

\* C32: the high-water mark never decreases, and once the concurrent
\* SetQueueDepth calls have completed it is the largest depth passed to any of
\* them (0 if none) and not below the current queue depth.
HighWaterMark ==
  /\ [][metrics'.maxQueueDepth >= metrics.maxQueueDepth]_vars
  /\ [](CallsCompleted
          => /\ metrics.maxQueueDepth = LargestDepth
             /\ metrics.maxQueueDepth >= metrics.queueDepth)
  /\ [](metrics.maxQueueDepth <= LargestDepth)

\* every caller has returned, one of them raised a mark another had set
\* before, and the last depth stored is below the high-water mark
HighWaterAboveDepth ==
  /\ Done = Callers
  /\ metrics.maxQueueDepth = MaxDepth
  /\ metrics.queueDepth < MaxDepth
  /\ \E c \in Callers : setters[c].depth > setters[c].current /\ setters[c].current > 0

\* the tasks stored as pending or processing
Backlog(ts) ==
  Cardinality({t \in DOMAIN ts : ts[t].status \in {TaskStatusPending, TaskStatusProcessing}})

\* C33: every queue depth the engine writes is the number of pending or
\* processing tasks in the task store at the observation: the depth a poller
\* sets on a tick with a batch, and the depth the task listing sets.
QueueDepthIsBacklog ==
  /\ [][\A w \in Workers : Fetched(w) => metrics'.queueDepth = Backlog(tasks)]_vars
  /\ [][metrics' # metrics => metrics'.queueDepth = Backlog(tasks)]_vars

\* a derived rate was recomputed less than a second after its last
\* recomputation
TooSoon(before, after) ==
  after # before /\ before # ZeroFloat /\ after.d - before.d < Second

\* C34: the derived metrics of each category are recomputed at most once per
\* second: two recomputations of the http rate, and two of the task rate, are
\* never less than one second apart.
RecomputedOncePerSecond ==
  /\ [][~TooSoon(metrics.requestsPerSecond, metrics'.requestsPerSecond)]_vars
  /\ [][~TooSoon(metrics.tasksPerSecond, metrics'.tasksPerSecond)]_vars

\* C35: a sweep whose delete fails changes no task and no record and moves
\* no poller; the cleanup worker does not end with it but goes back to its
\* loop, where the next sweep can run, and leaves only on the stop signal.
FailedSweepHarmless ==
  /\ [][cleaner = "idle" /\ cleaner' = "deleteFailed"
          => tasks' = tasks /\ records' = records /\ workers' = workers]_vars
  /\ [][cleaner = "deleteFailed" /\ cleaner' # cleaner => cleaner' = "idle"]_vars
  /\ [](cleaner = "idle" => ENABLED CleanupOldTasks /\ ENABLED CleanupDeleteFails)
  /\ [][cleaner # "exited" /\ cleaner' = "exited" => stopCh]_vars

\* the delete has just failed with a task due for deletion in the store and
\* the pollers still polling
SweepFailedOnDueTask ==
  /\ cleaner = "deleteFailed"
  /\ ~stopCh
  /\ \E t \in DOMAIN tasks :
       Terminal(tasks[t].status) /\ tasks[t].updated_at < now - RetentionHours
  /\ \A w \in Workers : workers[w].pc # "exited"

\* the poller's step belongs to an apply attempt that fails or is on its way
\* to the comparison with the existing record
FailingApplyStep(w) ==
  /\ Steps(w, "apply") \/ Steps(w, "verify")
  /\ workers'[w].pc \in {"verify", "increment"}

\* C36: an apply attempt that fails leaves the record store as it was: no
\* step of a failing insert, update or delete adds, removes or changes a
\* record.
FailedApplyKeepsRecords ==
  [][\A w \in Workers : FailingApplyStep(w) => records' = records]_vars

\* an insert has just failed on a record that holds another document, and an
\* update or delete has failed on a missing record before
ApplyFailedOnConflict ==
  \E w \in Workers :
    /\ workers[w].pc = "increment"
    /\ workers[w].err = ErrInsertConflict
    /\ Current(w).payload.id \in DOMAIN records
    /\ Marshal(records[Current(w).payload.id]) # Current(w).payload.value
    /\ \E t \in DOMAIN tasks :
         tasks[t].operation # TaskOperationInsert /\ tasks[t].retries > 0

\* C37: whatever the sequence of Start and Stop calls, the stop channel is
\* closed at most once, so that no Stop panics, and a Start after a Stop
\* leaves the pollers with an open stop channel, polling again.
RestartSafe ==
  /\ [](stopper # "panicked")
  /\ [][~running /\ running' => ~stopCh']_vars

\* C38: between a Start and the next Stop all WorkerCount pollers and the
\* cleanup worker are alive, however often Start is called; a Start on a
\* running pool starts nothing and a Stop on a pool that is not running
\* closes nothing.
StartIdempotent ==
  /\ [](running => (\A w \in Workers : workers[w].pc # "exited") /\ cleaner # "exited")
  /\ [][running /\ running' => \A w \in Workers : workers[w].pc = "exited" <=> workers'[w].pc = "exited"]_vars
  /\ [][~running /\ ~running' => stopCh' = stopCh /\ stopper' # "panicked"]_vars

\* the tasks a sweep may not touch
Unfinished(ts) ==
  {t \in DOMAIN ts : ts[t].status \in {TaskStatusPending, TaskStatusProcessing}}

\* C39: a sweep keeps every pending or processing task, whatever its age,
\* changes no field of any task it keeps, and changes no record.
SweepSparesUnfinished ==
  [][CleanupOldTasks
       => /\ Unfinished(tasks) \subseteq DOMAIN tasks'
          /\ \A t \in DOMAIN tasks' : t \in DOMAIN tasks /\ tasks'[t] = tasks[t]
          /\ records' = records]_vars

\* a sweep has removed a finished task and left a pending one that is as old
OldPendingSurvivedSweep ==
  /\ 1 \notin DOMAIN tasks
  /\ \E t \in DOMAIN tasks :
       /\ tasks[t].status = TaskStatusPending
       /\ tasks[t].updated_at < now - RetentionHours
  /\ records # <<>>
====
